---- MODULE Spec2Model ----
(***************************************************************************)
(* Model of the recommendation-result cache and aggregation pipeline of    *)
(* the movie-recommendation backend (src/backend/node/src/routes/auth.js): *)
(* the in-memory expiring cache, MLService (the scoring client with its    *)
(* fallbacks and clearUserCache), the preference-mutation endpoints that   *)
(* invalidate it, and the metadata enrichment of the recommendation routes.*)
(*                                                                         *)
(* Conventions.  A JavaScript string is a sequence of one-character        *)
(* strings, so that String.includes is a real substring test.  Date.now()  *)
(* is the variable now, in milliseconds.  Scores are fixed-point numbers   *)
(* in hundredths (0.90 is 90).  JavaScript null is the value Null.         *)
(* Every asynchronous function is cut at its awaits: one action per        *)
(* stretch of code that runs without suspension.                           *)
(***************************************************************************)
EXTENDS Integers, Sequences, FiniteSets, TLC

\* ------------------------------------------------------------------ bounds

MaxCalls == 2          \* scoring calls made in one behaviour
MaxMutations == 1      \* like / unlike / rate requests in one behaviour
MaxTicks == 1          \* clock advances in one behaviour of the scoring scenario
MaxLimit == 11         \* largest limit of the fallback scenario

\* User ids: 42 is a decimal prefix of 420.
Users == {42, 420}
\* Subjects of similarity calls; 42 is also a user id.
Movies == {42}
\* Limits of the scoring calls; 11 exceeds the ten entries of the fallback list.
Limits == {2, 11}
\* The movie the modelled users like, unlike and rate.
PrefMovies == {550}
\* Ratings sent to POST /:id/rate: below, inside and above 1..5.
RatingInputs == {0, 4, 6}
\* Clock advance of the scoring scenario: one hour and 1 ms, which outlasts the
\* personalized entries and not the similarity entries.
ClockSteps == {3600001}

Calls == 1..MaxCalls
Mutations == 1..MaxMutations

\* ------------------------------------------------------- JavaScript values

Null == [type |-> "null"]

\* if (cached): every object is truthy, null is not.
Truthy(v) == v # Null

Min(a, b) == IF a < b THEN a ELSE b

DigitChar(d) ==
  CASE d = 0 -> "0" [] d = 1 -> "1" [] d = 2 -> "2" [] d = 3 -> "3"
    [] d = 4 -> "4" [] d = 5 -> "5" [] d = 6 -> "6" [] d = 7 -> "7"
    [] d = 8 -> "8" [] OTHER -> "9"

\* `${n}` of a non-negative integer: its decimal digits.
RECURSIVE NumberToString(_)
NumberToString(n) ==
  IF n < 10 THEN <<DigitChar(n)>>
  ELSE NumberToString(n \div 10) \o <<DigitChar(n % 10)>>

\* String.prototype.includes
Includes(s, p) ==
  \E i \in 0..(Len(s) - Len(p)) : SubSeq(s, i + 1, i + Len(p)) = p

\* Array.prototype.slice(0, n) for n >= 0
Slice(s, n) == SubSeq(s, 1, Min(n, Len(s)))

\* ------------------------------------------------------------- cache keys

Colon == <<":">>
RecUserPrefix == <<"r", "e", "c", ":", "u", "s", "e", "r", ":">>
SimilarPrefix == <<"s", "i", "m", "i", "l", "a", "r", ":">>
UserPrefix == <<"u", "s", "e", "r", ":">>

\* `rec:user:${userId}:${limit}`
PersonalizedKey(userId, limit) ==
  RecUserPrefix \o NumberToString(userId) \o Colon \o NumberToString(limit)

\* `similar:${movieId}:${limit}`
SimilarKeyAsUser(movieId, limit) ==
  RecUserPrefix \o NumberToString(movieId) \o Colon \o NumberToString(limit)
SimilarKey(movieId, limit) ==
  SimilarPrefix \o NumberToString(movieId) \o Colon \o NumberToString(limit)

\* `user:${userId}`
UserFragment(userId) == UserPrefix \o NumberToString(userId)

\* ----------------------------------------------------------- the cache

TTL_PERSONALIZED == 3600
TTL_SIMILAR == 7200
MS_PER_SECOND == 1000

\* cache.get's expiry test: Date.now() > item.expiry
ExpiredAtExpiry(item, t) == t >= item.expiry
Expired(item, t) == t > item.expiry

\* cache.set: this.data[key] = { value, expiry: Date.now() + ttlSeconds * 1000 }
CacheSetNoScale(data, key, value, ttlSeconds, t) ==
  [k \in DOMAIN data \cup {key} |->
     IF k = key THEN [value |-> value, expiry |-> t + ttlSeconds]
     ELSE data[k]]
CacheSetIfAbsent(data, key, value, ttlSeconds, t) ==
  IF key \in DOMAIN data THEN data
  ELSE [k \in DOMAIN data \cup {key} |->
          IF k = key THEN [value |-> value, expiry |-> t + ttlSeconds * MS_PER_SECOND]
          ELSE data[k]]
CacheSet(data, key, value, ttlSeconds, t) ==
  [k \in DOMAIN data \cup {key} |->
     IF k = key THEN [value |-> value, expiry |-> t + ttlSeconds * MS_PER_SECOND]
     ELSE data[k]]

\* delete this.data[key]
Delete(data, keys) == [k \in DOMAIN data \ keys |-> data[k]]

\* cache.get: the value it returns
CacheGet(data, key, t) ==
  IF key \notin DOMAIN data THEN Null
  ELSE IF Expired(data[key], t) THEN Null
  ELSE data[key].value

\* cache.get: the map it leaves (an expired entry is deleted)
CacheAfterGetSweep(data, key, t) ==
  Delete(data, {k \in DOMAIN data : Expired(data[k], t)})
CacheAfterGet(data, key, t) ==
  IF key \in DOMAIN data /\ Expired(data[key], t) THEN Delete(data, {key})
  ELSE data

\* clearUserCache's test of one key: key.includes(`user:${userId}`)
KeyMatchesOtherFragment(key, userId) ==
  Includes(key, <<"u", "s", "e", "r", "s", ":">> \o NumberToString(userId))
KeyMatchesUser(key, userId) == Includes(key, UserFragment(userId))

\* clearUserCache: the map it leaves
ClearUserCache(data, userId) ==
  Delete(data, {k \in DOMAIN data : KeyMatchesUser(k, userId)})

\* --------------------------------------------------- results and fallbacks

FALLBACK_IDS == <<550, 278, 680, 155, 13, 423, 769, 24428, 329, 107>>

\* Array.from({ length: limit }, (_, i) => 0.9 - i * 0.05), in hundredths
FallbackScoresStep4(limit) == [i \in 1..limit |-> 90 - (i - 1) * 4]
FallbackScores(limit) == [i \in 1..limit |-> 90 - (i - 1) * 5]

\* The value getPersonalizedRecommendations returns from its catch block.
PersonalizedFallback(limit) ==
  [movie_ids |-> Slice(FALLBACK_IDS, limit),
   scores |-> FallbackScores(limit),
   method |-> "fallback"]

\* The value getSimilarMovies and getCollaborativeRecommendations return from
\* their catch blocks.
EmptyFallback == [movie_ids |-> <<>>, scores |-> <<>>, method |-> "fallback"]

\* The value getCollaborativeRecommendations returns for a user without ratings.
NoData == [movie_ids |-> <<>>, scores |-> <<>>, method |-> "no_data"]

\* ratings.length === 0
NoRatingsNever(rows) == FALSE
NoRatings(rows) == Cardinality(DOMAIN rows) = 0

\* ------------------------------------------------------------------ state

VARIABLES
  now,         \* Date.now(), in ms
  ticks,       \* clock advances made so far
  cacheData,   \* cache.data: key -> [value, expiry]
  ratings,     \* table ratings: user -> (movie_id -> rating)
  likes,       \* table likes: user -> set of movie_id
  ratingsVer,  \* history: changes made to each user's ratings rows
  likesVer,    \* history: changes made to each user's likes rows
  clearedR,    \* history: the ratingsVer covered by the user's last invalidation
  clearedL,    \* history: the likesVer covered by the user's last invalidation
  calls,       \* the scoring calls: MLService's async methods, cut at their awaits
  muts,        \* the preference-mutation requests, cut at their awaits
  lastSet,     \* history: per key, the last cache.set (value, time, ttl)
  got,         \* history: the last cache.get made directly (key, value, time)
  enr,         \* one recommendation route's enrichment of a scoring result
  health,      \* GET /ml-health: checkHealth, cut at its await
  heap,        \* the result objects: reference -> object
  held         \* per caller, the reference its scoring call returned

\* The variables the scoring calls and the mutation endpoints leave alone.
aux == <<lastSet, got, enr, health, heap, held>>

vars == <<now, ticks, cacheData, ratings, likes, ratingsVer, likesVer,
          clearedR, clearedL, calls, muts, lastSet, got, enr, health, heap, held>>

\* The keys the cache scenario sets and gets.
CacheKeys == {PersonalizedKey(42, 2), SimilarKey(42, 2)}

IdleEnrichment ==
  [pc |-> "idle", site |-> "none", mlResult |-> Null, fetch |-> <<>>,
   movieDetails |-> <<>>, settled |-> <<>>, response |-> Null]

IdleHealth ==
  [pc |-> "idle", n |-> 0, upstream |-> Null, result |-> Null, response |-> Null]

NoRows == [m \in {} |-> 0]

\* The ratings rows the database holds when the process starts (the database
\* outlives it): user 42 has rated each movie of PrefMovies 4, user 420 nothing.
StoredRatings == [u \in Users |-> IF u = 42 THEN [m \in PrefMovies |-> 4] ELSE NoRows]

IdleCall ==
  [kind |-> "none", id |-> 0, limit |-> 0, pc |-> "idle",
   ratings |-> NoRows, likes |-> {}, result |-> Null, outcome |-> "none",
   nReq |-> 0, hit |-> FALSE,
   \* history of the call, read by the properties only
   rv |-> 0, lv |-> 0, seenR |-> 0, seenL |-> 0, raced |-> FALSE,
   t0 |-> 0, tEnd |-> 0, after |-> {}, endSeq |-> 0]

IdleMutation ==
  [op |-> "none", user |-> 0, movie |-> 0, rating |-> 0, pc |-> "idle",
   status |-> 0, verR |-> 0, verL |-> 0, cleared |-> FALSE]

Init ==
  /\ now = 0
  /\ ticks = 0
  /\ cacheData = [k \in {} |-> Null]
  /\ ratings = StoredRatings
  /\ likes = [u \in Users |-> {}]
  /\ ratingsVer = [u \in Users |-> 0]
  /\ likesVer = [u \in Users |-> 0]
  /\ clearedR = [u \in Users |-> 0]
  /\ clearedL = [u \in Users |-> 0]
  /\ calls = [c \in Calls |-> IdleCall]
  /\ muts = [m \in Mutations |-> IdleMutation]
  /\ lastSet = [k \in CacheKeys |-> Null]
  /\ got = Null
  /\ enr = IdleEnrichment
  /\ health = IdleHealth
  /\ heap = <<>>
  /\ held = [c \in Calls |-> Null]

Done(c) == calls[c].pc = "done"
DoneCalls == {c \in Calls : Done(c)}

\* Slots are used in order: slot c starts once slot c - 1 has started.
MayStart(c) ==
  calls[c].pc = "idle" /\ (IF c = 1 THEN TRUE ELSE calls[c - 1].pc # "idle")

\* The cache key of a call (collaborative calls have none).
KeyOf(call) ==
  IF call.kind = "personalized" THEN PersonalizedKey(call.id, call.limit)
  ELSE SimilarKey(call.id, call.limit)

\* The record of a call that returns `result` now.
RetryOnce(call, result, outcome) ==
  IF outcome = "fallback" /\ call.nReq = 1
  THEN [call EXCEPT !.nReq = 2]
  ELSE [call EXCEPT !.pc = "done", !.result = result, !.outcome = outcome,
                    !.tEnd = now, !.endSeq = Cardinality(DoneCalls) + 1]
Finish(call, result, outcome) ==
  [call EXCEPT !.pc = "done", !.result = result, !.outcome = outcome,
               !.tEnd = now, !.endSeq = Cardinality(DoneCalls) + 1]

\* The record of a call entered now.
Enter(kind, id, limit) ==
  [IdleCall EXCEPT !.kind = kind, !.id = id, !.limit = limit, !.t0 = now,
                   !.after = DoneCalls,
                   !.seenR = IF kind = "similar" THEN 0 ELSE clearedR[id],
                   !.seenL = IF kind = "similar" THEN 0 ELSE clearedL[id]]

\* ------------------------------------------------- the ranking service

\* The tag the ranking service gives the results of each endpoint.
LiveMethod(kind) ==
  CASE kind = "personalized" -> "hybrid"
    [] kind = "similar" -> "content_similarity"
    [] OTHER -> "collaborative_filtering"

ServiceCatalogue == <<603, 604>>
ServiceScores == <<95, 85>>
ReplyShapes == {"result", "malformed", "empty"}

\* response.data of a successful request made by call c.  The service is opaque:
\* it answers with a ranked result of at most n_recommendations items, with a JSON
\* object that is no result, or with an empty (null) body.  `by` records the call
\* whose request the payload answers.
ServiceReply(shape, kind, limit, c) ==
  CASE shape = "result" ->
         [movie_ids |-> Slice(ServiceCatalogue, limit),
          scores |-> Slice(ServiceScores, limit),
          method |-> LiveMethod(kind), by |-> c]
    [] shape = "malformed" -> [error |-> "internal error", by |-> c]
    [] OTHER -> Null

\* ------------------------------------------------------ MLService calls

\* What a catch block does to the cache: nothing.
CacheFallbackToo(data, key, result, t) ==
  CacheSet(data, key, result, TTL_PERSONALIZED, t)
CacheAfterFailure(data, key, result, t) == data

\* What getCollaborativeRecommendations does to the cache with the answer of the
\* ranking service: nothing.
CacheCollaborativeToo(data, key, result, t) ==
  CacheSet(data, key, result, TTL_PERSONALIZED, t)
CacheAfterCollaborative(data, key, result, t) == data

\* getPersonalizedRecommendations up to its first await: the cache lookup, and
\* on a miss the ratings query is issued.
StartPersonalized(c, userId, limit) ==
  /\ MayStart(c)
  /\ LET key == PersonalizedKey(userId, limit)
         cached == CacheGet(cacheData, key, now)
         call == Enter("personalized", userId, limit)
     IN /\ cacheData' = CacheAfterGet(cacheData, key, now)
        /\ calls' = [calls EXCEPT ![c] =
             IF Truthy(cached)
             THEN Finish([call EXCEPT !.hit = TRUE], cached, "cached")
             ELSE [call EXCEPT !.pc = "ratings"]]
  /\ UNCHANGED <<aux, now, ticks, ratings, likes, ratingsVer, likesVer,
                 clearedR, clearedL, muts>>

\* getSimilarMovies up to its await: the cache lookup, and on a miss the request
\* to the ranking service is sent.
StartSimilar(c, movieId, limit) ==
  /\ MayStart(c)
  /\ LET key == SimilarKey(movieId, limit)
         cached == CacheGet(cacheData, key, now)
         call == Enter("similar", movieId, limit)
     IN /\ cacheData' = CacheAfterGet(cacheData, key, now)
        /\ calls' = [calls EXCEPT ![c] =
             IF Truthy(cached)
             THEN Finish([call EXCEPT !.hit = TRUE], cached, "cached")
             ELSE [call EXCEPT !.pc = "post", !.nReq = 1]]
  /\ UNCHANGED <<aux, now, ticks, ratings, likes, ratingsVer, likesVer,
                 clearedR, clearedL, muts>>

\* getCollaborativeRecommendations up to its first await: the ratings query is
\* issued.
StartCollaborative(c, userId, limit) ==
  /\ MayStart(c)
  /\ calls' = [calls EXCEPT ![c] =
       [Enter("collaborative", userId, limit) EXCEPT !.pc = "ratings"]]
  /\ UNCHANGED <<aux, now, ticks, cacheData, ratings, likes, ratingsVer, likesVer,
                 clearedR, clearedL, muts>>

\* The ratings query resolves with the user's rows.  The personalized call goes on
\* to the likes query; the collaborative call returns no_data for no rows and
\* sends its request otherwise.
RatingsRead(c) ==
  /\ calls[c].pc = "ratings"
  /\ LET rows == ratings[calls[c].id]
         call == [calls[c] EXCEPT !.ratings = rows, !.rv = ratingsVer[calls[c].id]]
     IN calls' = [calls EXCEPT ![c] =
          IF call.kind = "personalized" THEN [call EXCEPT !.pc = "likes"]
          ELSE IF NoRatings(rows) THEN Finish(call, NoData, "no_data")
          ELSE [call EXCEPT !.pc = "post", !.nReq = @ + 1]]
  /\ UNCHANGED <<aux, now, ticks, cacheData, ratings, likes, ratingsVer, likesVer,
                 clearedR, clearedL, muts>>

\* The likes query of a personalized call resolves, and the request to the
\* ranking service is sent.
LikesRead(c) ==
  /\ calls[c].pc = "likes"
  /\ calls' = [calls EXCEPT ![c] =
       [@ EXCEPT !.likes = likes[calls[c].id], !.lv = likesVer[calls[c].id],
                 !.pc = "post", !.nReq = @ + 1]]
  /\ UNCHANGED <<aux, now, ticks, cacheData, ratings, likes, ratingsVer, likesVer,
                 clearedR, clearedL, muts>>

\* The value a call returns from its catch block.
FallbackOf(call) ==
  IF call.kind = "personalized" THEN PersonalizedFallback(call.limit)
  ELSE EmptyFallback

\* The catch block of call c runs.
Catch(c) ==
  /\ calls' = [calls EXCEPT ![c] = Finish(@, FallbackOf(@), "fallback")]
  /\ cacheData' =
       IF calls[c].kind = "collaborative" THEN cacheData
       ELSE CacheAfterFailure(cacheData, KeyOf(calls[c]), FallbackOf(calls[c]), now)
  /\ UNCHANGED <<aux, now, ticks, ratings, likes, ratingsVer, likesVer,
                 clearedR, clearedL, muts>>

\* A storage read (dbAsync.all) rejects.
StorageFails(c) ==
  /\ calls[c].pc \in {"ratings", "likes"}
  /\ Catch(c)

\* The request to the ranking service times out, cannot connect or gets a
\* non-success response: axios.post rejects.
ServiceFails(c) ==
  /\ calls[c].pc = "post"
  /\ Catch(c)

\* The ranking service answers: personalized and similarity calls store
\* response.data in the cache and return it, the collaborative call returns it.
ServiceReplies(c, shape) ==
  /\ calls[c].pc = "post"
  /\ LET call == calls[c]
         result == ServiceReply(shape, call.kind, call.limit, c)
     IN /\ calls' = [calls EXCEPT ![c] = Finish(call, result, "live")]
        /\ cacheData' =
             CASE call.kind = "personalized" ->
                    CacheSet(cacheData, KeyOf(call), result, TTL_PERSONALIZED, now)
               [] call.kind = "similar" ->
                    CacheSet(cacheData, KeyOf(call), result, TTL_SIMILAR, now)
               [] OTHER -> CacheAfterCollaborative(cacheData, KeyOf(call), result, now)
  /\ UNCHANGED <<aux, now, ticks, ratings, likes, ratingsVer, likesVer,
                 clearedR, clearedL, muts>>

\* Time passes.
Tick(d, max) ==
  /\ ticks < max
  /\ now' = now + d
  /\ ticks' = ticks + 1
  /\ UNCHANGED <<aux, cacheData, ratings, likes, ratingsVer, likesVer,
                 clearedR, clearedL, calls, muts>>

\* ------------------------------------------- preference-mutation endpoints

MayStartMutation(m) ==
  muts[m].pc = "idle" /\ (IF m = 1 THEN TRUE ELSE muts[m - 1].pc # "idle")

MutationFrame ==
  UNCHANGED <<aux, now, ticks, cacheData, ratings, likes, ratingsVer, likesVer,
              clearedR, clearedL, calls>>

\* POST /:id/like up to its await: the INSERT OR IGNORE is issued.
StartLike(m, userId, movieId) ==
  /\ MayStartMutation(m)
  /\ muts' = [muts EXCEPT ![m] =
       [IdleMutation EXCEPT !.op = "like", !.user = userId, !.movie = movieId,
                            !.pc = "write"]]
  /\ MutationFrame

\* DELETE /:id/like up to its await: the DELETE is issued.
StartUnlike(m, userId, movieId) ==
  /\ MayStartMutation(m)
  /\ muts' = [muts EXCEPT ![m] =
       [IdleMutation EXCEPT !.op = "unlike", !.user = userId, !.movie = movieId,
                            !.pc = "write"]]
  /\ MutationFrame

\* if (!rating || rating < 1 || rating > 5)
RatingRejectedAboveOnly(rating) == rating > 5
RatingRejected(rating) == ~(rating # 0 /\ rating >= 1 /\ rating <= 5)

\* POST /:id/rate up to its await: a rating outside 1..5 is answered 400, for
\* any other the upsert is issued.
StartRate(m, userId, movieId, rating) ==
  /\ MayStartMutation(m)
  /\ muts' = [muts EXCEPT ![m] =
       LET mut == [IdleMutation EXCEPT !.op = "rate", !.user = userId,
                                       !.movie = movieId, !.rating = rating]
       IN IF RatingRejected(rating)
          THEN [mut EXCEPT !.pc = "done", !.status = 400]
          ELSE [mut EXCEPT !.pc = "write"]]
  /\ MutationFrame

\* The rows of a user after the statement of mutation mut.
LikesAfter(mut, rows) ==
  CASE mut.op = "like" -> rows \cup {mut.movie}
    [] mut.op = "unlike" -> rows \ {mut.movie}
    [] OTHER -> rows

RatingsAfter(mut, rows) ==
  IF mut.op = "rate"
  THEN [k \in DOMAIN rows \cup {mut.movie} |->
          IF k = mut.movie THEN mut.rating ELSE rows[k]]
  ELSE rows

\* The statement of mutation m is executed by the database (dbAsync.run
\* resolves; the handler's continuation has not run yet).
WriteCommits(m) ==
  /\ muts[m].pc = "write"
  /\ LET u == muts[m].user
         newR == RatingsAfter(muts[m], ratings[u])
         newL == LikesAfter(muts[m], likes[u])
         vR == IF newR = ratings[u] THEN ratingsVer[u] ELSE ratingsVer[u] + 1
         vL == IF newL = likes[u] THEN likesVer[u] ELSE likesVer[u] + 1
     IN /\ ratings' = [ratings EXCEPT ![u] = newR]
        /\ likes' = [likes EXCEPT ![u] = newL]
        /\ ratingsVer' = [ratingsVer EXCEPT ![u] = vR]
        /\ likesVer' = [likesVer EXCEPT ![u] = vL]
        /\ muts' = [muts EXCEPT ![m] =
             [@ EXCEPT !.pc = "committed", !.verR = vR, !.verL = vL]]
  /\ UNCHANGED <<aux, now, ticks, cacheData, clearedR, clearedL, calls>>

\* The statement of mutation m fails (dbAsync.run rejects): the catch block
\* answers 500.
WriteFails(m) ==
  /\ muts[m].pc = "write"
  /\ muts' = [muts EXCEPT ![m] = [@ EXCEPT !.pc = "done", !.status = 500]]
  /\ MutationFrame

Max(a, b) == IF a > b THEN a ELSE b

\* A call that has been entered and has not returned.
InFlight(call) == call.pc \notin {"idle", "done"}

\* The continuation of a mutation handler after its await: clearUserCache(userId),
\* then the response.
AfterWrite(m) ==
  /\ muts[m].pc = "committed"
  /\ LET u == muts[m].user
     IN /\ cacheData' = ClearUserCache(cacheData, u)
        /\ clearedR' = [clearedR EXCEPT ![u] = Max(@, muts[m].verR)]
        /\ clearedL' = [clearedL EXCEPT ![u] = Max(@, muts[m].verL)]
        /\ calls' = [c \in Calls |->
             IF InFlight(calls[c]) /\ calls[c].kind = "personalized"
                /\ calls[c].id = u
             THEN [calls[c] EXCEPT !.raced = TRUE]
             ELSE calls[c]]
  /\ muts' = [muts EXCEPT ![m] =
       [@ EXCEPT !.pc = "done", !.status = 200, !.cleared = TRUE]]
  /\ UNCHANGED <<aux, now, ticks, ratings, likes, ratingsVer, likesVer>>

\* ------------------------------------------------ the scoring scenario

Next ==
  \/ \E c \in Calls, u \in Users, n \in Limits : StartPersonalized(c, u, n)
  \/ \E c \in Calls, i \in Movies, n \in Limits : StartSimilar(c, i, n)
  \/ \E c \in Calls, u \in Users, n \in Limits : StartCollaborative(c, u, n)
  \/ \E c \in Calls : RatingsRead(c)
  \/ \E c \in Calls : LikesRead(c)
  \/ \E c \in Calls : StorageFails(c)
  \/ \E c \in Calls : ServiceFails(c)
  \/ \E c \in Calls, shape \in ReplyShapes : ServiceReplies(c, shape)
  \/ \E m \in Mutations, u \in Users, i \in PrefMovies : StartLike(m, u, i)
  \/ \E m \in Mutations, u \in Users, i \in PrefMovies : StartUnlike(m, u, i)
  \/ \E m \in Mutations, u \in Users, i \in PrefMovies, r \in RatingInputs :
       StartRate(m, u, i, r)
  \/ \E m \in Mutations : WriteCommits(m)
  \/ \E m \in Mutations : WriteFails(m)
  \/ \E m \in Mutations : AfterWrite(m)
  \/ \E d \in ClockSteps : Tick(d, MaxTicks)

Spec == Init /\ [][Next]_vars

\* ------------------------------------------------ the fallback scenario

\* The ranking service is down: every request to it times out.  Personalized
\* calls are made for every limit up to MaxLimit.
NextFallback ==
  \/ \E c \in Calls, u \in Users, n \in 1..MaxLimit : StartPersonalized(c, u, n)
  \/ \E c \in Calls : RatingsRead(c)
  \/ \E c \in Calls : LikesRead(c)
  \/ \E c \in Calls : ServiceFails(c)

FallbackSpec == Init /\ [][NextFallback]_vars

\* -------------------------------------------- the similarity scenario

MaxTimedTicks == 2
\* Clock advances of the similarity scenario: one hour, two hours (the ttl of a
\* similarity entry) and two hours and 1 ms.
TimedSteps == {3600000, 7200000, 7200001}

\* Similarity calls over a clock that reaches and passes the ttl.
NextTimed ==
  \/ \E c \in Calls, i \in Movies, n \in Limits : StartSimilar(c, i, n)
  \/ \E c \in Calls : ServiceFails(c)
  \/ \E c \in Calls, shape \in ReplyShapes : ServiceReplies(c, shape)
  \/ \E d \in TimedSteps : Tick(d, MaxTimedTicks)

TimedSpec == Init /\ [][NextTimed]_vars

\* ------------------------------------------------- the cache scenario

MaxCacheTicks == 3
\* Time-to-live arguments of cache.set, in seconds.
CacheTtls == {1, 2}
\* Clock advances of the cache scenario, in ms.
CacheSteps == {1, 1000}
\* Values stored by the cache scenario.
CacheValues ==
  {[movie_ids |-> <<603>>, scores |-> <<95>>, method |-> "hybrid"],
   [movie_ids |-> <<>>, scores |-> <<>>, method |-> "content_similarity"]}

ScoringFrame ==
  UNCHANGED <<ratings, likes, ratingsVer, likesVer, clearedR, clearedL, calls,
              muts, enr, health, heap, held>>

\* cache.set(key, value, ttlSeconds)
CacheSetStep(key, value, ttlSeconds) ==
  /\ cacheData' = CacheSet(cacheData, key, value, ttlSeconds, now)
  /\ lastSet' = [lastSet EXCEPT ![key] =
       [value |-> value, at |-> now, ttl |-> ttlSeconds]]
  /\ UNCHANGED <<now, ticks, got>>
  /\ ScoringFrame

\* cache.get(key)
CacheGetStep(key) ==
  /\ got' = [key |-> key, value |-> CacheGet(cacheData, key, now), at |-> now,
             set |-> lastSet[key]]
  /\ cacheData' = CacheAfterGet(cacheData, key, now)
  /\ UNCHANGED <<now, ticks, lastSet>>
  /\ ScoringFrame

\* cache.clear()
CacheClearStep ==
  /\ cacheData' = [k \in {} |-> Null]
  /\ lastSet' = [k \in CacheKeys |-> Null]
  /\ UNCHANGED <<now, ticks, got>>
  /\ ScoringFrame

\* clearUserCache(userId)
CacheInvalidateStep(userId) ==
  /\ cacheData' = ClearUserCache(cacheData, userId)
  /\ lastSet' = [k \in CacheKeys |->
       IF KeyMatchesUser(k, userId) THEN Null ELSE lastSet[k]]
  /\ UNCHANGED <<now, ticks, got>>
  /\ ScoringFrame

NextCache ==
  \/ \E k \in CacheKeys, v \in CacheValues, ttl \in CacheTtls : CacheSetStep(k, v, ttl)
  \/ \E k \in CacheKeys : CacheGetStep(k)
  \/ CacheClearStep
  \/ \E u \in Users : CacheInvalidateStep(u)
  \/ \E d \in CacheSteps : Tick(d, MaxCacheTicks)

CacheSpec == Init /\ [][NextCache]_vars

\* ------------------------------------------- the enrichment scenario

MaxItems == 3
\* Item identifiers a ranked list is made of.
ItemIds == {1, 2, 3}
\* Scores by rank, in hundredths: one list falls with the rank, one rises.
ScoreOrders ==
  {[i \in 1..MaxItems |-> 100 - 10 * i], [i \in 1..MaxItems |-> 50 + 10 * i]}
\* The index-aligned scoring results handed to a route.
EnrichInputs ==
  {[movie_ids |-> ids, scores |-> SubSeq(sc, 1, Len(ids)), method |-> "hybrid"] :
     ids \in UNION {[1..n -> ItemIds] : n \in 0..MaxItems}, sc \in ScoreOrders}

\* The routes that enrich a scoring result, and the field each adds.
Sites == {"personalized", "similar", "collaborative"}
ScoreField(site) ==
  CASE site = "personalized" -> "recommendation_score"
    [] site = "similar" -> "similarity_score"
    [] site = "collaborative" -> "predicted_rating"

\* response.data of the metadata service for one item
Metadata(id) == [id |-> id]

\* { ...response.data, <field>: mlResult.scores[index] }
EnrichedItem(site, mlResult, index) ==
  [movie |-> Metadata(mlResult.movie_ids[index]), field |-> ScoreField(site),
   score |-> mlResult.scores[index]]

KeepAll(movieDetails) == movieDetails

\* movieDetails.filter(Boolean)
FilterBoolean(movieDetails) == SelectSeq(movieDetails, Truthy)

\* /collaborative answers at once when the scoring result is empty
Declines(site, mlResult) == site = "collaborative" /\ Len(mlResult.movie_ids) = 0

EnrichFrame ==
  UNCHANGED <<now, ticks, cacheData, ratings, likes, ratingsVer, likesVer,
              clearedR, clearedL, calls, muts, lastSet, got, health, heap, held>>

\* The route receives the scoring result; map() starts one fetch per item, all
\* in the same synchronous stretch, and the route awaits Promise.all.
EnrichStart(site, mlResult) ==
  /\ enr.pc = "idle"
  /\ enr' =
       IF Declines(site, mlResult)
       THEN [enr EXCEPT !.pc = "declined", !.site = site, !.mlResult = mlResult,
               !.response = [status |-> 200, items |-> <<>>,
                             message |-> "Not enough data. Please rate more movies!"]]
       ELSE [enr EXCEPT !.pc = "fetching", !.site = site, !.mlResult = mlResult,
               !.fetch = [i \in 1..Len(mlResult.movie_ids) |-> "pending"],
               !.movieDetails = [i \in 1..Len(mlResult.movie_ids) |-> Null]]
  /\ EnrichFrame

\* The metadata request of position index is answered: its promise resolves to
\* the enriched item.
FetchSucceeds(index) ==
  /\ enr.pc = "fetching"
  /\ index \in DOMAIN enr.fetch
  /\ enr.fetch[index] = "pending"
  /\ enr' = [enr EXCEPT !.fetch[index] = "ok",
               !.movieDetails[index] = EnrichedItem(enr.site, enr.mlResult, index),
               !.settled = Append(@, index)]
  /\ EnrichFrame

\* The metadata request of position index fails: the catch makes its promise
\* resolve to null.
FetchFails(index) ==
  /\ enr.pc = "fetching"
  /\ index \in DOMAIN enr.fetch
  /\ enr.fetch[index] = "pending"
  /\ enr' = [enr EXCEPT !.fetch[index] = "failed",
               !.movieDetails[index] = Null,
               !.settled = Append(@, index)]
  /\ EnrichFrame

\* Promise.all resolves once every promise of the array has resolved.
AnySettled(fetch) == \E i \in DOMAIN fetch : fetch[i] # "pending"
AllSettled(fetch) == \A i \in DOMAIN fetch : fetch[i] # "pending"

\* Promise.all resolves once every promise has; the route filters and answers.
EnrichRespond ==
  /\ enr.pc = "fetching"
  /\ AllSettled(enr.fetch)
  /\ LET validMovies == FilterBoolean(enr.movieDetails)
     IN enr' = [enr EXCEPT !.pc = "done",
                  !.response = [status |-> 200, items |-> validMovies,
                                count |-> Len(validMovies)]]
  /\ EnrichFrame

NextEnrich ==
  \/ \E site \in Sites, mlResult \in EnrichInputs : EnrichStart(site, mlResult)
  \/ \E index \in 1..MaxItems : FetchSucceeds(index)
  \/ \E index \in 1..MaxItems : FetchFails(index)
  \/ EnrichRespond

EnrichSpec == Init /\ [][NextEnrich]_vars

\* ----------------------------------------------- the health scenario

MaxHealthChecks == 2
\* Bodies the ranking service's /health endpoint answers with (null: no body).
HealthPayloads ==
  {[status |-> "healthy"], [status |-> "degraded", models_loaded |-> FALSE], Null}
\* error.message of a rejected axios.get: timeout, no connection, non-2xx status.
HealthErrors ==
  {"timeout of 3000ms exceeded", "connect ECONNREFUSED",
   "Request failed with status code 503"}

\* checkHealth's catch block: { status: 'unhealthy', error: error.message }
UnhealthyWithoutMessage(message) == [status |-> "unhealthy"]
Unhealthy(message) == [status |-> "unhealthy", error |-> message]

HealthFrame ==
  UNCHANGED <<now, ticks, cacheData, ratings, likes, ratingsVer, likesVer,
              clearedR, clearedL, calls, muts, lastSet, got, enr, heap, held>>

\* GET /ml-health calls checkHealth, which sends its request and awaits it.
StartHealth ==
  /\ health.pc \in {"idle", "done"}
  /\ health.n < MaxHealthChecks
  /\ health' = [IdleHealth EXCEPT !.pc = "get", !.n = health.n + 1]
  /\ HealthFrame

\* axios.get resolves: checkHealth returns response.data and the route sends it.
HealthReplies(payload) ==
  /\ health.pc = "get"
  /\ health' = [health EXCEPT !.pc = "done", !.upstream = [data |-> payload],
                  !.result = payload, !.response = payload]
  /\ HealthFrame

\* axios.get rejects: checkHealth returns the unhealthy object and the route
\* sends it.
HealthFails(message) ==
  /\ health.pc = "get"
  /\ health' = [health EXCEPT !.pc = "done", !.upstream = [failure |-> message],
                  !.result = Unhealthy(message), !.response = Unhealthy(message)]
  /\ HealthFrame

\* Health checks made while similarity calls fill the cache.
NextHealth ==
  \/ \E c \in Calls, i \in Movies, n \in Limits : StartSimilar(c, i, n)
  \/ \E c \in Calls : ServiceFails(c)
  \/ \E c \in Calls, shape \in ReplyShapes : ServiceReplies(c, shape)
  \/ StartHealth
  \/ \E payload \in HealthPayloads : HealthReplies(payload)
  \/ \E message \in HealthErrors : HealthFails(message)

HealthSpec == Init /\ [][NextHealth]_vars

\* --------------------------------------------- the reference scenario

\* Results are objects: cache.set stores the reference it is given, cache.get
\* returns the stored reference, and `return result` hands the caller the same
\* reference.  heap[r] is the object of reference r: its present value and, as
\* history, the value the ranking service sent.
MaxObjects == 2

\* The ttl each operation caches with, by key.
TtlOfKey(key) ==
  IF SubSeq(key, 1, Len(RecUserPrefix)) = RecUserPrefix THEN TTL_PERSONALIZED
  ELSE TTL_SIMILAR

\* response.data: a fresh object per answer
FreshResult == [movie_ids |-> ServiceCatalogue, scores |-> ServiceScores,
                method |-> "hybrid"]

\* Changes a caller can make to the object it was returned.
Changes == {"truncate", "retag"}
Change(change, object) ==
  IF change = "truncate"
  THEN [object EXCEPT !.movie_ids = <<>>, !.scores = <<>>]
  ELSE [object EXCEPT !.method = "shown"]

RefFrame ==
  UNCHANGED <<now, ticks, ratings, likes, ratingsVer, likesVer, clearedR,
              clearedL, calls, muts, lastSet, got, enr, health>>

\* A scoring call for `key` up to its await: on a hit it returns the cached
\* reference, on a miss it sends its request.
RefLookup(c, key) ==
  /\ IF held[c] = Null THEN TRUE ELSE held[c].pc = "returned"
  /\ LET cached == CacheGet(cacheData, key, now)
     IN held' = [held EXCEPT ![c] =
          IF Truthy(cached)
          THEN [pc |-> "returned", key |-> key, ref |-> cached.ref, hit |-> TRUE,
                seen |-> heap[cached.ref].value]
          ELSE [pc |-> "post", key |-> key, ref |-> 0, hit |-> FALSE,
                seen |-> Null]]
  /\ cacheData' = CacheAfterGet(cacheData, key, now)
  /\ UNCHANGED heap
  /\ RefFrame

\* The ranking service answers: the call stores the reference of response.data
\* in the cache and returns the same reference.
RefAnswer(c) ==
  /\ held[c] # Null
  /\ held[c].pc = "post"
  /\ Len(heap) < MaxObjects
  /\ LET r == Len(heap) + 1
     IN /\ heap' = Append(heap, [value |-> FreshResult, orig |-> FreshResult])
        /\ cacheData' = CacheSet(cacheData, held[c].key, [ref |-> r],
                                 TtlOfKey(held[c].key), now)
        /\ held' = [held EXCEPT ![c] =
             [@ EXCEPT !.pc = "returned", !.ref = r, !.seen = FreshResult]]
  /\ RefFrame

\* The caller changes the object it was returned.
CallerChanges(c, change) ==
  /\ held[c] # Null
  /\ held[c].pc = "returned"
  /\ heap' = [heap EXCEPT ![held[c].ref].value = Change(change, @)]
  /\ UNCHANGED <<cacheData, held>>
  /\ RefFrame

NextRef ==
  \/ \E c \in Calls, k \in CacheKeys : RefLookup(c, k)
  \/ \E c \in Calls : RefAnswer(c)
  \/ \E c \in Calls, change \in Changes : CallerChanges(c, change)

RefSpec == Init /\ [][NextRef]_vars

\* ---------------------------------------------------------- properties

\* A value with the three fields of a ScoringResult.
IsScoringResult(r) == {"movie_ids", "scores", "method"} \subseteq DOMAIN r

\* A value the ranking service sent (not null): it names the call it answered.
HasSource(r) == "by" \in DOMAIN r

SameRequest(c, d) ==
  /\ calls[c].kind = calls[d].kind
  /\ calls[c].id = calls[d].id
  /\ calls[c].limit = calls[d].limit

\* C1: every result a scoring operation returns has as many scores as item
\* identifiers, for every limit and on every path.
C1_LengthsAgree ==
  \A c \in Calls :
    (Done(c) /\ IsScoringResult(calls[c].result)) =>
      Len(calls[c].result.movie_ids) = Len(calls[c].result.scores)

\* The cache keys of user u: rec:user:<u>:<limit>.
KeysOfUser(u) == {PersonalizedKey(u, n) : n \in Limits}

\* C2: clearUserCache(u) leaves exactly the entries the cache held minus the
\* entries of user u; entries of other users and similarity entries stay, with
\* their value and expiry.
C2_ClearRemovesOnlyThatUser ==
  [][\A m \in Mutations :
       (muts[m].pc = "committed" /\ muts'[m].pc = "done") =>
         cacheData' = Delete(cacheData, KeysOfUser(muts[m].user))]_vars

\* The preference data call b read is at least as recent as every mutation whose
\* invalidation had returned when call c was entered.
ReadAfterInvalidation(b, c) ==
  calls[b].rv >= calls[c].seenR /\ calls[b].lv >= calls[c].seenL

EnteredAfterInvalidation(b, c) ==
  calls[b].seenR >= calls[c].seenR /\ calls[b].seenL >= calls[c].seenL

\* C3 as claimed: in every interleaving, a personalized call entered after
\* clearUserCache(u) returned never returns a result computed from the preference
\* data as it was before the mutation.
C3_NeverStaleAfterInvalidation ==
  \A c \in Calls :
    (Done(c) /\ calls[c].kind = "personalized" /\ HasSource(calls[c].result)) =>
      ReadAfterInvalidation(calls[c].result.by, c)

\* C3 as amended: a personalized call entered after clearUserCache(u) returned
\* that misses the cache computes its result from preference data read after the
\* mutation; one that hits the cache is served an entry written after the
\* invalidation, either by a call entered after it or by a call that was in
\* flight when it ran (the only source of a pre-mutation result).
C3_StaleOnlyFromInFlightWriter ==
  \A c \in Calls :
    (Done(c) /\ calls[c].kind = "personalized" /\ HasSource(calls[c].result)) =>
      LET b == calls[c].result.by
      IN /\ (b = c) = ~calls[c].hit
         /\ b = c => ReadAfterInvalidation(c, c)
         /\ b # c => (calls[b].raced \/ EnteredAfterInvalidation(b, c))
         /\ ~ReadAfterInvalidation(b, c) => (calls[c].hit /\ calls[b].raced)

\* C3's case: call b cached a result, a mutation of the user was then
\* invalidated, and call c, entered after that, recomputed.
C3_Witness ==
  \E b, c \in Calls :
    /\ b # c /\ SameRequest(b, c) /\ calls[c].kind = "personalized"
    /\ Done(b) /\ calls[b].outcome = "live" /\ b \in calls[c].after
    /\ ~EnteredAfterInvalidation(b, c)
    /\ Done(c) /\ calls[c].outcome = "live" /\ calls[c].result.by = c

\* C4: every scoring call returns a well-formed ScoringResult (an id sequence, a
\* score sequence and a method tag), whatever storage and the ranking service do.
C4_AlwaysScoringResult ==
  \A c \in Calls : Done(c) => IsScoringResult(calls[c].result)

\* A result this layer made up: tagged fallback or no_data.
IsDegraded(r) == IsScoringResult(r) /\ r.method \in {"fallback", "no_data"}

\* A call ends on a failure path in this step.
EndsDegraded(c) ==
  /\ calls[c].pc # "done"
  /\ calls'[c].pc = "done"
  /\ calls'[c].outcome \in {"fallback", "no_data"}

\* Every other call with the request of c had returned, from its catch block,
\* when c was entered, and there is at least one.
FollowsOnlyFailures(c) ==
  /\ \E b \in calls[c].after : SameRequest(b, c)
  /\ \A b \in Calls \ {c} :
       (calls[b].pc # "idle" /\ SameRequest(b, c)) =>
         (b \in calls[c].after /\ calls[b].outcome = "fallback")

C9_NoDataOnlyWithoutRatings ==
  \A c \in Calls :
    calls[c].kind = "collaborative" =>
      /\ calls[c].nReq > 0 => calls[c].ratings # NoRows
      /\ (Done(c) /\ calls[c].outcome # "fallback" /\ calls[c].ratings = NoRows) =>
           /\ calls[c].result =
                [movie_ids |-> <<>>, scores |-> <<>>, method |-> "no_data"]
           /\ calls[c].nReq = 0
      /\ (Done(c) /\ IsScoringResult(calls[c].result)
            /\ calls[c].result.method = "no_data") =>
           (calls[c].ratings = NoRows /\ calls[c].nReq = 0)
      /\ (Done(c) /\ calls[c].outcome = "fallback") =>
           calls[c].result =
             [movie_ids |-> <<>>, scores |-> <<>>, method |-> "fallback"]

\* C9's case: a collaborative call for a user without ratings returned no_data.
C9_Witness ==
  \E c \in Calls :
    /\ calls[c].kind = "collaborative" /\ Done(c)
    /\ ratings[calls[c].id] = NoRows
    /\ calls[c].result.method = "no_data"
    /\ calls[c].nReq = 0

\* C5: with the ranking service down, a personalized call with a limit of 1 to
\* 10 returns the first `limit` identifiers of the fixed list, in order, with
\* score 0.90 - 0.05 * i at position i (strictly decreasing) and method
\* "fallback", whatever the user and whatever calls were made before.
C5_FallbackList ==
  \A c \in Calls :
    (Done(c) /\ calls[c].nReq = 1 /\ calls[c].limit <= 10) =>
      LET r == calls[c].result
          n == calls[c].limit
          list == <<550, 278, 680, 155, 13, 423, 769, 24428, 329, 107>>
      IN /\ r.method = "fallback"
         /\ Len(r.movie_ids) = n
         /\ Len(r.scores) = n
         /\ \A i \in 1..n :
              /\ r.movie_ids[i] = list[i]
              /\ r.scores[i] = 90 - 5 * (i - 1)
              /\ i > 1 => r.scores[i] < r.scores[i - 1]

\* C5's case: after an earlier call, a call with limit 5 whose request timed out
\* returned the scores 0.90 .. 0.70.
C5_Witness ==
  \E c \in Calls :
    /\ Done(c) /\ calls[c].after # {} /\ calls[c].nReq = 1
    /\ calls[c].limit = 5
    /\ calls[c].result.scores = <<90, 85, 80, 75, 70>>

\* The second call is made within the ttl window opened by the first.
WithinSimilarTtl(c1, c2) == calls[c2].t0 - calls[c1].t0 <= 7200 * 1000

\* c1 and c2 are consecutive calls with the same arguments: c1 had returned when
\* c2 was entered, and no call with these arguments returned in between.
Consecutive(c1, c2) ==
  /\ c1 # c2 /\ SameRequest(c1, c2)
  /\ Done(c1) /\ c1 \in calls[c2].after
  /\ \A c3 \in calls[c2].after :
       SameRequest(c3, c2) => calls[c3].endSeq <= calls[c1].endSeq

\* C8 as claimed: two consecutive getSimilarMovies(m, n) calls within the ttl
\* window send at most one request in total, whatever the first call's outcome.
C8_AtMostOneRequest ==
  \A c1, c2 \in Calls :
    (calls[c2].kind = "similar" /\ Consecutive(c1, c2) /\ Done(c2)
       /\ WithinSimilarTtl(c1, c2)) =>
      calls[c1].nReq + calls[c2].nReq <= 1

\* The call returned a result of the ranking service, fresh or cached.
Served(c) ==
  \/ calls[c].outcome = "cached"
  \/ calls[c].outcome = "live" /\ Truthy(calls[c].result)

\* C8 as amended: when the first of two consecutive getSimilarMovies(m, n) calls
\* within the ttl window returned a result of the ranking service, the two send
\* at most one request in total, and a first call that fetched its result is
\* followed by a cache hit that returns the same result.
C8_OneRequestAfterServedCall ==
  \A c1, c2 \in Calls :
    (calls[c2].kind = "similar" /\ Consecutive(c1, c2) /\ Done(c2)
       /\ WithinSimilarTtl(c1, c2) /\ Served(c1)) =>
      /\ calls[c1].nReq + calls[c2].nReq <= 1
      /\ calls[c1].outcome = "live" =>
           /\ calls[c2].hit /\ calls[c2].nReq = 0
           /\ calls[c2].result = calls[c1].result

\* C8's case: the first call fetched a result, time passed, and the second call,
\* still within the window, was served from the cache.
C8_Witness ==
  \E c1, c2 \in Calls :
    /\ calls[c2].kind = "similar" /\ Consecutive(c1, c2) /\ Done(c2)
    /\ calls[c1].outcome = "live" /\ Truthy(calls[c1].result)
    /\ calls[c2].t0 = calls[c1].tEnd + 7200 * 1000
    /\ calls[c2].hit
    /\ calls[c1].nReq + calls[c2].nReq = 1

\* C7 as claimed: get(k) made less than ttl after set(k, v, ttl) returns v, and
\* from the moment ttl has elapsed it returns null.
C7_AbsentFromExpiryOn ==
  (got # Null /\ got.set # Null) =>
    LET expiry == got.set.at + got.set.ttl * 1000
    IN /\ got.at < expiry => got.value = got.set.value
       /\ got.at >= expiry => got.value = Null

\* C7 as amended: get(k) made up to and including ttl after the last
\* set(k, v, ttl) returns v, and any later get(k) returns null.
C7_AbsentAfterExpiry ==
  (got # Null /\ got.set # Null) =>
    LET expiry == got.set.at + got.set.ttl * 1000
    IN /\ got.at <= expiry => got.value = got.set.value
       /\ got.at > expiry => got.value = Null

\* C7's case: a get made exactly ttl after the set of its key returned the
\* value that was set.
C7_Witness ==
  /\ got # Null /\ got.set # Null
  /\ got.at = got.set.at + got.set.ttl * 1000
  /\ got.value = got.set.value

\* The positions whose metadata fetch did not fail.
Kept == {i \in DOMAIN enr.fetch : enr.fetch[i] = "ok"}

\* C10: whatever fetches fail and in whatever order the fetches complete, the
\* enrichment of an index-aligned scoring result returns exactly the items whose
\* fetch did not fail, in rank order, each with the score of its original index
\* under the route's field; a failed fetch does not abort the batch, and the
\* reported count is the number of returned items.
C10_EnrichmentKeepsRankOrder ==
  enr.pc = "done" =>
    LET items == enr.response.items
    IN /\ enr.response.status = 200
       /\ Len(items) = Cardinality(Kept)
       /\ enr.response.count = Len(items)
       /\ \A j \in 1..Len(items) :
            \E i \in Kept :
              /\ Cardinality({k \in Kept : k < i}) = j - 1
              /\ items[j].movie.id = enr.mlResult.movie_ids[i]
              /\ items[j].score = enr.mlResult.scores[i]
              /\ items[j].field = ScoreField(enr.site)

\* C10's case: of three items with rising scores the fetch of the second failed
\* and the third completed first; the first and the third were returned.
C10_Witness ==
  /\ enr.pc = "done"
  /\ enr.mlResult.movie_ids = <<1, 2, 3>>
  /\ enr.mlResult.scores = <<60, 70, 80>>
  /\ enr.fetch = <<"ok", "failed", "ok">>
  /\ enr.settled = <<3, 2, 1>>
  /\ enr.response.count = 2
  /\ enr.response.items[2].movie.id = 3

\* C11: clearUserCache(u) for a user u who has no cached entry (the empty cache
\* included) leaves the cache identical, so a second clearUserCache(u) in a row
\* changes nothing.
C11_ClearWithoutEntriesIsNoOp ==
  [][\A m \in Mutations :
       (/\ muts[m].pc = "committed" /\ muts'[m].pc = "done"
        /\ KeysOfUser(muts[m].user) \cap DOMAIN cacheData = {}) =>
         cacheData' = cacheData]_vars

\* C12: checkHealth always returns: the upstream payload unchanged when the
\* health request succeeds, {status: "unhealthy", error: <message>} when it
\* fails in any way; no step of it changes the cache.
C12_HealthNeverRaises ==
  /\ [](health.pc = "done" =>
          /\ "data" \in DOMAIN health.upstream =>
               health.result = health.upstream.data
          /\ "failure" \in DOMAIN health.upstream =>
               health.result =
                 [status |-> "unhealthy", error |-> health.upstream.failure]
          /\ health.response = health.result)
  /\ [][health' # health => cacheData' = cacheData]_vars

\* C12's case: with an entry in the cache, a health request timed out and
\* checkHealth returned the unhealthy object.
C12_Witness ==
  /\ health.pc = "done"
  /\ DOMAIN cacheData # {}
  /\ health.result =
       [status |-> "unhealthy", error |-> "timeout of 3000ms exceeded"]

\* Call c is entered in this step as a personalized call.
EntersPersonalized(c) ==
  calls[c].pc = "idle" /\ calls'[c].kind = "personalized"

\* The entry of key k is served by a lookup made now.
Servable(k) ==
  /\ k \in DOMAIN cacheData
  /\ now <= cacheData[k].expiry
  /\ Truthy(cacheData[k].value)

\* C13: the stale-population race happens.  A personalized call answered after
\* an invalidation that ran while it was in flight writes its result under
\* rec:user:u:n with a ttl of one hour; a later call for that key is served the
\* entry as long as it is present and unexpired; and the entry leaves the cache
\* only through an invalidation or a lookup after its expiry.
C13_StaleEntryServedUntilExpiry ==
  /\ [][\A b \in Calls :
          (/\ calls[b].kind = "personalized" /\ calls[b].raced
           /\ calls[b].pc = "post" /\ calls'[b].outcome = "live") =>
            /\ PersonalizedKey(calls[b].id, calls[b].limit) \in DOMAIN cacheData'
            /\ cacheData'[PersonalizedKey(calls[b].id, calls[b].limit)] =
                 [value |-> calls'[b].result, expiry |-> now + 3600 * 1000]]_vars
  /\ [][\A c \in Calls :
          EntersPersonalized(c) =>
            IF Servable(PersonalizedKey(calls'[c].id, calls'[c].limit))
            THEN /\ calls'[c].hit /\ calls'[c].nReq = 0
                 /\ calls'[c].result =
                      cacheData[PersonalizedKey(calls'[c].id, calls'[c].limit)].value
                 /\ cacheData' = cacheData
            ELSE ~calls'[c].hit]_vars
  /\ [][\A k \in DOMAIN cacheData :
          k \notin DOMAIN cacheData' =>
            \/ \E m \in Mutations : muts[m].pc = "committed" /\ muts'[m].pc = "done"
            \/ now > cacheData[k].expiry]_vars

\* C13's case: call b read the preferences, a mutation of them was committed and
\* invalidated while b was in flight, b's answer was cached, and call c, entered
\* after all that, was served b's result.
C13_Witness ==
  \E b, c \in Calls :
    /\ b # c /\ SameRequest(b, c) /\ calls[c].kind = "personalized"
    /\ Done(b) /\ calls[b].raced /\ calls[b].outcome = "live"
    /\ b \in calls[c].after
    /\ calls[b].rv < calls[c].seenR \/ calls[b].lv < calls[c].seenL
    /\ Done(c) /\ calls[c].hit
    /\ HasSource(calls[c].result) /\ calls[c].result.by = b

\* Call b raced call c to the miss: both have the same cache key, b missed,
\* fetched and returned, and c was entered before b returned.
RacedTheMiss(b, c) ==
  /\ b # c /\ SameRequest(b, c)
  /\ Done(b) /\ calls[b].outcome = "live" /\ ~calls[b].hit
  /\ b \notin calls[c].after

\* C14: two calls for one cache key that both miss before either has written
\* both send a request and both write the entry.  The step that processes the
\* later answer leaves one entry for the key, holding that answer, and touches
\* no other entry; each caller gets the answer to its own request.
C14_LastWriterWins ==
  /\ [][\A b, c \in Calls :
          (/\ calls[c].kind \in {"personalized", "similar"}
           /\ RacedTheMiss(b, c)
           /\ calls[c].pc = "post" /\ calls'[c].outcome = "live") =>
            /\ DOMAIN cacheData' = DOMAIN cacheData \cup {KeyOf(calls[c])}
            /\ cacheData'[KeyOf(calls[c])].value = calls'[c].result
            /\ \A k \in DOMAIN cacheData \ {KeyOf(calls[c])} :
                 cacheData'[k] = cacheData[k]]_vars
  /\ [](\A b, c \in Calls :
          (/\ calls[c].kind \in {"personalized", "similar"}
           /\ RacedTheMiss(b, c) /\ RacedTheMiss(c, b)) =>
            /\ calls[b].nReq = 1 /\ calls[c].nReq = 1
            /\ HasSource(calls[b].result) => calls[b].result.by = b
            /\ HasSource(calls[c].result) => calls[c].result.by = c)

\* C14's case: the call entered first was answered last, after the other call
\* had written the entry, and the cache holds the answer of the call entered
\* first.
C14_Witness ==
  /\ calls[1].kind \in {"personalized", "similar"}
  /\ RacedTheMiss(1, 2) /\ RacedTheMiss(2, 1)
  /\ calls[1].endSeq > calls[2].endSeq
  /\ HasSource(calls[1].result) /\ HasSource(calls[2].result)
  /\ KeyOf(calls[1]) \in DOMAIN cacheData
  /\ cacheData[KeyOf(calls[1])].value = calls[1].result
  /\ cacheData[KeyOf(calls[1])].value # calls[2].result

\* C15: in one enrichment of n items every fetch has been started before any of
\* them settles, so no start waits for another fetch, and the route produces its
\* output only once each of the n fetches has succeeded or failed.
C15_AllDispatchedThenAllSettled ==
  /\ [](enr.pc \in {"fetching", "done"} =>
          /\ DOMAIN enr.fetch = 1..Len(enr.mlResult.movie_ids)
          /\ Len(enr.settled) =
               Cardinality({i \in DOMAIN enr.fetch : enr.fetch[i] # "pending"})
          /\ enr.pc = "done" =>
               \A i \in DOMAIN enr.fetch : enr.fetch[i] \in {"ok", "failed"})
  /\ [][enr.response' # enr.response =>
          /\ \A i \in DOMAIN enr.fetch : enr.fetch[i] \in {"ok", "failed"}
          /\ enr.fetch' = enr.fetch]_vars
  /\ [][(enr.pc = "idle" /\ enr'.pc = "fetching") =>
          \A i \in 1..Len(enr'.mlResult.movie_ids) : enr'.fetch[i] = "pending"]_vars

\* C15's case: three fetches were started together, the last one settled first
\* and the first one failed last, and only then was the output produced.
C15_Witness ==
  /\ enr.pc = "done"
  /\ Len(enr.mlResult.movie_ids) = 3
  /\ enr.settled = <<3, 2, 1>>
  /\ enr.fetch = <<"failed", "ok", "ok">>
  /\ enr.response.count = 2

\* A step of collaborative call c.
CollaborativeStep(c) ==
  calls'[c] # calls[c] /\ calls'[c].kind = "collaborative"

\* No step of a collaborative call changes the cache, and no collaborative call
\* is served from it.
CollaborativeLeavesCache ==
  /\ [][\A c \in Calls : CollaborativeStep(c) => cacheData' = cacheData]_vars
  /\ [](\A c \in Calls :
          calls[c].kind = "collaborative" =>
            (~calls[c].hit /\ calls[c].outcome # "cached"))

\* C16 as claimed: a collaborative call never reads or writes the cache, and
\* every collaborative call for a user with at least one rating sends a request
\* to the ranking service.
C16_CollaborativeAlwaysContacts ==
  /\ CollaborativeLeavesCache
  /\ [](\A c \in Calls :
          (/\ Done(c) /\ calls[c].kind = "collaborative"
           /\ StoredRatings[calls[c].id] # NoRows) =>
            calls[c].nReq = 1)

\* C16 as amended: a collaborative call never reads or writes the cache, and
\* every collaborative call whose storage read returns at least one rating sends
\* a request to the ranking service, also right after an identical call
\* succeeded; a call whose storage read fails sends none.
C16_CollaborativeContactsAfterRead ==
  /\ CollaborativeLeavesCache
  /\ [](\A c \in Calls :
          (Done(c) /\ calls[c].kind = "collaborative") =>
            /\ calls[c].ratings # NoRows => calls[c].nReq = 1
            /\ (calls[c].outcome = "live" /\ HasSource(calls[c].result)) =>
                 calls[c].result.by = c
            /\ calls[c].nReq = 0 => calls[c].outcome \in {"no_data", "fallback"})

\* C16's case: right after a collaborative call was answered by the ranking
\* service, an identical call sent a request of its own and was answered.
C16_Witness ==
  \E b, c \in Calls :
    /\ b # c /\ SameRequest(b, c) /\ calls[c].kind = "collaborative"
    /\ Done(b) /\ calls[b].outcome = "live" /\ b \in calls[c].after
    /\ calls[c].t0 = calls[b].tEnd
    /\ Done(c) /\ calls[c].outcome = "live" /\ calls[c].nReq = 1
    /\ HasSource(calls[c].result) /\ calls[c].result.by = c
    /\ cacheData = <<>>

\* Every entry but that of key k is in the cache after the step as before.
OthersUntouched(k) ==
  \A j \in DOMAIN cacheData \ {k} :
    j \in DOMAIN cacheData' /\ cacheData'[j] = cacheData[j]

\* The step is a get(k) that found the entry of k expired and deleted it.
LazyExpiry(k) ==
  /\ now > cacheData[k].expiry
  /\ got' = [key |-> k, value |-> Null, at |-> now, set |-> lastSet[k]]
  /\ OthersUntouched(k)

\* The step is a clear().
IsClear == DOMAIN cacheData' = {} /\ \A k \in DOMAIN lastSet' : lastSet'[k] = Null

\* The step is a clearUserCache(u).
IsInvalidation(u) ==
  /\ got' = got
  /\ \A j \in DOMAIN cacheData :
       IF Includes(j, <<"u", "s", "e", "r", ":">> \o NumberToString(u))
       THEN j \notin DOMAIN cacheData'
       ELSE j \in DOMAIN cacheData' /\ cacheData'[j] = cacheData[j]

\* C17: an entry leaves the cache only by a get that finds it expired, by an
\* invalidation or by a clear.  A get of an expired entry deletes that entry
\* only and returns null, as a get of a key never set does; a get of an
\* unexpired entry changes nothing; a set leaves the entries of all other keys.
C17_EntriesLeaveOnlyByExpiryOrInvalidation ==
  /\ [][\A k \in DOMAIN cacheData :
          k \notin DOMAIN cacheData' =>
            (LazyExpiry(k) \/ IsClear \/ \E u \in Users : IsInvalidation(u))]_vars
  /\ [][got' # got =>
          LET k == got'.key
          IN IF k \notin DOMAIN cacheData
             THEN got'.value = Null /\ cacheData' = cacheData
             ELSE IF now > cacheData[k].expiry
             THEN /\ got'.value = Null
                  /\ DOMAIN cacheData' = DOMAIN cacheData \ {k}
                  /\ OthersUntouched(k)
             ELSE got'.value = cacheData[k].value /\ cacheData' = cacheData]_vars
  /\ [][\A k \in DOMAIN lastSet :
          (lastSet'[k] # lastSet[k] /\ lastSet'[k] # Null) =>
            /\ DOMAIN cacheData' = DOMAIN cacheData \cup {k}
            /\ OthersUntouched(k)]_vars

\* C17's case: a get found its entry expired, deleted it and returned null,
\* and the entry of the other key, expired as well, is still in the cache.
C17_Witness ==
  /\ got # Null /\ got.set # Null /\ got.value = Null
  /\ got.at = now
  /\ got.key \notin DOMAIN cacheData
  /\ \E j \in DOMAIN cacheData : now > cacheData[j].expiry

\* C18: what a cache hit returns is the result the ranking service sent for the
\* entry, whatever callers did to the results they were returned before.
C18_HitUnaffectedByCallers ==
  \A c \in Calls :
    (held[c] # Null /\ held[c].pc = "returned" /\ held[c].hit) =>
      held[c].seen = heap[held[c].ref].orig

\* What holds of the requests of every scoring call: never more than one, none
\* on a cache hit, which returns at once (a call that hit the cache takes no
\* further step, so it reads no storage), one for every call that waits for the
\* ranking service or was answered by it, never a second one after the first,
\* and a personalized call sends its request only after its ratings query and
\* then its likes query have returned the user's rows.
RequestsOfEachCall ==
  /\ [](\A c \in Calls :
          /\ calls[c].nReq <= 1
          /\ calls[c].hit => (Done(c) /\ calls[c].nReq = 0)
          /\ (calls[c].pc = "post" \/ calls[c].outcome = "live") => calls[c].nReq = 1)
  /\ [][\A c \in Calls :
          /\ calls[c].hit => calls'[c] = calls[c]
          /\ calls'[c].nReq # calls[c].nReq =>
               (calls[c].nReq = 0 /\ calls'[c].nReq = 1 /\ calls'[c].pc = "post")
          /\ (calls[c].kind = "personalized" /\ calls'[c].nReq # calls[c].nReq) =>
               /\ calls[c].pc = "likes"
               /\ calls'[c].likes = likes[calls[c].id]
          /\ (calls[c].kind = "personalized" /\ calls[c].pc # "likes"
                /\ calls'[c].pc = "likes") =>
               /\ calls[c].pc = "ratings"
               /\ calls'[c].ratings = ratings[calls[c].id]]_vars

\* C19 as claimed: every scoring call sends at most one request, none on a
\* cache hit and exactly one on a miss, with no retry; a personalized miss reads
\* ratings and likes before it sends its request.
C19_OneRequestOnEveryMiss ==
  /\ RequestsOfEachCall
  /\ [](\A c \in Calls :
          (/\ Done(c) /\ calls[c].kind \in {"personalized", "similar"}
           /\ ~calls[c].hit) =>
            calls[c].nReq = 1)

\* C19 as amended: every scoring call sends at most one request, none on a
\* cache hit, with no retry; a miss sends exactly one unless a storage read of
\* the personalized call fails, in which case it sends none and returns the
\* fallback result; a personalized miss reads ratings and likes before it sends
\* its request.
C19_OneRequestUnlessStorageFails ==
  /\ RequestsOfEachCall
  /\ [](\A c \in Calls :
          (/\ Done(c) /\ calls[c].kind \in {"personalized", "similar"}
           /\ ~calls[c].hit) =>
            /\ calls[c].kind = "similar" => calls[c].nReq = 1
            /\ calls[c].nReq = 0 =>
                 /\ calls[c].outcome = "fallback"
                 /\ calls[c].result.method = "fallback")
  /\ [][\A c \in Calls :
          (/\ calls[c].kind = "personalized" /\ calls[c].pc \in {"ratings", "likes"}
           /\ calls'[c].pc = "done") =>
            (calls'[c].nReq = 0 /\ calls'[c].outcome = "fallback")]_vars

\* C19's case: a personalized call missed, read the user's ratings, sent its
\* request, and returned the fallback result when the request failed, having
\* sent that one request only.
C19_Witness ==
  \E c \in Calls :
    /\ calls[c].kind = "personalized" /\ Done(c) /\ ~calls[c].hit
    /\ calls[c].ratings # NoRows
    /\ calls[c].outcome = "fallback"
    /\ calls[c].nReq = 1

\* The cache key of a request of a caching operation.
KeyOfRequest(kind, id, limit) ==
  IF kind = "personalized" THEN PersonalizedKey(id, limit)
  ELSE SimilarKey(id, limit)

\* Requests that differ in operation, subject or limit have different keys.
RequestKeysDiffer ==
  \A k1, k2 \in {"personalized", "similar"}, i1, i2 \in Users \cup Movies,
     n1, n2 \in Limits :
    KeyOfRequest(k1, i1, n1) = KeyOfRequest(k2, i2, n2) =>
      (k1 = k2 /\ i1 = i2 /\ n1 = n2)

\* C20: every value in the cache that the ranking service sent answers a request
\* of exactly the operation, subject and limit of its key; a cache hit returns
\* a result produced for the operation, subject and limit of the call; and
\* requests that differ in operation, subject or limit have different keys,
\* also when a user and an item have the same number.
C20_EntriesIsolatedByRequest ==
  /\ \A k \in DOMAIN cacheData :
       HasSource(cacheData[k].value) =>
         LET b == calls[cacheData[k].value.by]
         IN /\ b.kind \in {"personalized", "similar"}
            /\ k = KeyOfRequest(b.kind, b.id, b.limit)
            /\ IsScoringResult(cacheData[k].value) =>
                 cacheData[k].value.method = LiveMethod(b.kind)
  /\ \A c \in Calls :
       (calls[c].hit /\ HasSource(calls[c].result)) =>
         /\ SameRequest(calls[c].result.by, c)
         /\ IsScoringResult(calls[c].result) =>
              calls[c].result.method = LiveMethod(calls[c].kind)
  /\ RequestKeysDiffer

\* C20's case: user 42 and item 42 were both served with limit 2, and the cache
\* holds one entry for each, each with the answer to its own request.
C20_Witness ==
  \E b, c \in Calls :
    /\ calls[b].kind = "personalized" /\ calls[c].kind = "similar"
    /\ calls[b].id = calls[c].id /\ calls[b].limit = calls[c].limit
    /\ b \in calls[c].after /\ Done(c) /\ ~calls[c].hit
    /\ PersonalizedKey(calls[b].id, calls[b].limit) \in DOMAIN cacheData
    /\ SimilarKey(calls[c].id, calls[c].limit) \in DOMAIN cacheData
    /\ HasSource(cacheData[PersonalizedKey(calls[b].id, calls[b].limit)].value)
    /\ cacheData[PersonalizedKey(calls[b].id, calls[b].limit)].value.by = b
    /\ HasSource(cacheData[SimilarKey(calls[c].id, calls[c].limit)].value)
    /\ cacheData[SimilarKey(calls[c].id, calls[c].limit)].value.by = c

\* The statement of mutation m has its effect on the rows after this step.
WriteApplied(m) ==
  LET u == muts[m].user
      i == muts[m].movie
  IN CASE muts[m].op = "like" -> i \in likes'[u]
       [] muts[m].op = "unlike" -> i \notin likes'[u]
       [] OTHER -> i \in DOMAIN ratings'[u] /\ ratings'[u][i] = muts[m].rating

\* C21: in the like, unlike and rate endpoints the invalidation runs in the
\* stretch that follows the completed storage write and that also sends the
\* response, so nothing runs between the invalidation and the response; a
\* request whose write fails (500) or whose rating is outside 1..5 (400) leaves
\* the cache unchanged and invalidates nothing.
C21_ClearAfterWriteBeforeResponse ==
  /\ [][\A m \in Mutations :
          /\ (muts[m].pc # "committed" /\ muts'[m].pc = "committed") =>
               (muts[m].pc = "write" /\ WriteApplied(m) /\ cacheData' = cacheData)
          /\ (~muts[m].cleared /\ muts'[m].cleared) =>
               /\ muts[m].pc = "committed"
               /\ muts'[m].pc = "done" /\ muts'[m].status = 200
               /\ KeysOfUser(muts[m].user) \cap DOMAIN cacheData' = {}
               /\ DOMAIN cacheData' \subseteq DOMAIN cacheData
          /\ (muts[m].status = 0 /\ muts'[m].status \in {400, 500}) =>
               (cacheData' = cacheData /\ ~muts'[m].cleared)
          /\ muts[m].pc = "done" => muts'[m] = muts[m]]_vars
  /\ [](\A m \in Mutations :
          /\ muts[m].cleared = (muts[m].status = 200)
          /\ (muts[m].pc = "done") = (muts[m].status # 0)
          /\ muts[m].status = 500 => muts[m].op \in {"like", "unlike", "rate"}
          /\ (muts[m].op = "rate" /\ muts[m].rating \notin 1..5) =>
               (muts[m].pc = "done" /\ muts[m].status = 400)
          /\ muts[m].status = 400 =>
               (muts[m].op = "rate" /\ muts[m].rating \notin 1..5))

\* C21's case: a personalized result of the user was cached, the user then rated
\* a movie, and once the rating was stored the entry was removed and the request
\* answered 200.
C21_Witness ==
  \E m \in Mutations, c \in Calls :
    /\ muts[m].op = "rate" /\ muts[m].status = 200 /\ muts[m].cleared
    /\ ratings[muts[m].user][muts[m].movie] = muts[m].rating
    /\ calls[c].kind = "personalized" /\ calls[c].id = muts[m].user
    /\ Done(c) /\ calls[c].outcome = "live" /\ ~calls[c].raced
    /\ ticks = 0
    /\ PersonalizedKey(calls[c].id, calls[c].limit) \notin DOMAIN cacheData

====
